---- MODULE Spec2Model ----
(***************************************************************************)
(* HeyGen MCP server (src/src/index.ts, and the earlier build kept in      *)
(* src/unnamed/part_000): start-up, the tool catalog, the call-tool        *)
(* dispatcher and the transport adapter makeRequest.                       *)
(*                                                                         *)
(* A JavaScript string is a sequence of tokens; a token is a separator     *)
(* character ("/", "?", "&", "=", " ", "\"") or a run of other characters. *)
(* A JavaScript value is a record tagged with its typeof.                  *)
(***************************************************************************)
EXTENDS Integers, Sequences, FiniteSets, TLC

VARIABLES
  build,      \* which entry point runs: "src" (src/src/index.ts) or "legacy" (part_000)
  scope,      \* "sequential", "history": one invocation at a time; "concurrent": interleaved
  env,        \* process.env.HEYGEN_API_KEY
  API_KEY,    \* the credential captured at load time
  pc,         \* position of the process in module evaluation
  stderr,     \* lines written with console.error
  exitCode,   \* process exit status, -1 while running
  server,     \* [created, handlers, connected]
  listing,    \* last answer of the list-tools handler, <<>> before the first
  calls,      \* per in-flight invocation: the handler's position and data
  prev        \* observer, scope "history": the invocation answered last

vars == <<build, scope, env, API_KEY, pc, stderr, exitCode, server, listing, calls, prev>>

----------------------------------------------------------------------------
(* Bounds *)

MaxInflight == 2
MaxFileLen == 2

Slots == 1..MaxInflight

----------------------------------------------------------------------------
(* JavaScript values *)

Undefined == [t |-> "undefined"]
Null == [t |-> "null"]
Str(s) == [t |-> "string", s |-> s]
Num(n) == [t |-> "number", n |-> n]
Bool(b) == [t |-> "boolean", b |-> b]
Buf(bytes) == [t |-> "buffer", bytes |-> bytes]
Obj(fields) == [t |-> "object", fields |-> fields]

\* no request, no reply, no response, no file yet
None == [t |-> "none"]

\* ToBoolean, as used by `if (x)` and `!x`
Truthy(v) ==
  CASE v.t = "undefined" -> FALSE
    [] v.t = "null" -> FALSE
    [] v.t = "string" -> Len(v.s) > 0
    [] v.t = "number" -> v.n # 0
    [] v.t = "boolean" -> v.b
    [] OTHER -> TRUE

\* typeof v
TypeOf(v) ==
  CASE v.t \in {"null", "buffer", "object"} -> "object"
    [] OTHER -> v.t

IsBuffer(v) == v.t = "buffer"

\* ${v} inside a template literal
TemplateStr(v) ==
  CASE v.t = "undefined" -> <<"undefined">>
    [] v.t = "null" -> <<"null">>
    [] v.t = "string" -> v.s
    [] v.t = "number" -> <<ToString(v.n)>>
    [] v.t = "boolean" -> IF v.b THEN <<"true">> ELSE <<"false">>
    [] OTHER -> <<"[object Object]">>

RECURSIVE Join(_, _)
Join(ss, sep) ==
  IF ss = <<>> THEN <<>>
  ELSE IF Len(ss) = 1 THEN Head(ss)
  ELSE Head(ss) \o sep \o Join(Tail(ss), sep)

\* text contains sub as a contiguous run of tokens
Contains(text, sub) ==
  \E i \in 0..(Len(text) - Len(sub)) :
    \A j \in 1..Len(sub) : text[i + j] = sub[j]

HasToken(text, tok) == \E i \in 1..Len(text) : text[i] = tok

----------------------------------------------------------------------------
(* JSON.stringify *)

JsonEscapeToken(tok) ==
  CASE tok = "\"" -> "\\\""
    [] tok = "\\" -> "\\\\"
    [] tok = "\n" -> "\\n"
    [] OTHER -> tok

JsonQuote(s) ==
  <<"\"">> \o [i \in 1..Len(s) |-> JsonEscapeToken(s[i])] \o <<"\"">>

RECURSIVE Indent(_)
Indent(n) == IF n = 0 THEN <<>> ELSE <<"  ">> \o Indent(n - 1)

DefinedFields(fields) ==
  SelectSeq(fields, LAMBDA kv : kv[2].t # "undefined")

\* JSON.stringify(v, null, 2) when pretty, JSON.stringify(v) otherwise;
\* depth is the current nesting level.  FieldsAt serialises the members
\* fs[i..] of an object.
RECURSIVE StringifyAt(_, _, _), FieldsAt(_, _, _, _)
StringifyAt(v, pretty, depth) ==
  CASE v.t = "null" -> <<"null">>
    [] v.t = "string" -> JsonQuote(v.s)
    [] v.t = "number" -> <<ToString(v.n)>>
    [] v.t = "boolean" -> IF v.b THEN <<"true">> ELSE <<"false">>
    [] v.t = "buffer" ->
         \* Buffer.prototype.toJSON: {type: "Buffer", data: [...]}
         <<"{", "\"type\"", ":", "\"Buffer\"", ",", "\"data\"", ":", "[">>
           \o Join([i \in 1..Len(v.bytes) |-> <<ToString(v.bytes[i])>>], <<",">>)
           \o <<"]", "}">>
    [] v.t = "object" ->
         IF DefinedFields(v.fields) = <<>> THEN <<"{", "}">>
         ELSE <<"{">> \o FieldsAt(DefinedFields(v.fields), 1, pretty, depth)
                \o (IF pretty THEN <<"\n">> \o Indent(depth) ELSE <<>>) \o <<"}">>
    [] OTHER -> <<"undefined">>

FieldsAt(fs, i, pretty, depth) ==
  IF i > Len(fs) THEN <<>>
  ELSE (IF i > 1 THEN <<",">> ELSE <<>>)
         \o (IF pretty THEN <<"\n">> \o Indent(depth + 1) ELSE <<>>)
         \o JsonQuote(<<fs[i][1]>>)
         \o (IF pretty THEN <<":", " ">> ELSE <<":">>)
         \o StringifyAt(fs[i][2], pretty, depth + 1)
         \o FieldsAt(fs, i + 1, pretty, depth)

Stringify(v) == StringifyAt(v, FALSE, 0)
StringifyPretty(v) == StringifyAt(v, TRUE, 0)

----------------------------------------------------------------------------
(* URLSearchParams *)

\* application/x-www-form-urlencoded serialisation of one token
FormEncodeToken(tok) ==
  CASE tok = " " -> "+"
    [] tok = "&" -> "%26"
    [] tok = "=" -> "%3D"
    [] tok = "/" -> "%2F"
    [] tok = "?" -> "%3F"
    [] tok = "#" -> "%23"
    [] tok = "+" -> "%2B"
    [] tok = "%" -> "%25"
    [] tok = "\"" -> "%22"
    [] OTHER -> tok

FormEncode(s) == [i \in 1..Len(s) |-> FormEncodeToken(s[i])]

\* URLSearchParams.prototype.append
Append_(params, k, v) == Append(params, <<k, v>>)

\* URLSearchParams.prototype.toString
QueryToString(params) ==
  Join([i \in 1..Len(params) |->
          FormEncode(<<params[i][1]>>) \o <<"=">> \o FormEncode(params[i][2])],
       <<"&">>)

----------------------------------------------------------------------------
(* Program constants *)

UPLOAD_BASE_URL == <<"https:", "/", "/", "upload.heygen.com", "/", "v1">>
API_BASE_URL == <<"https:", "/", "/", "api.heygen.com", "/", "v1">>

\* a catalog that lost its last descriptor
toolsWithoutRestore ==
  << [name |-> "upload_asset", properties |-> {"file_path", "mime_type"},
      required |-> {"file_path", "mime_type"}],
     [name |-> "list_assets",
      properties |-> {"folder_id", "file_type", "limit", "token"},
      required |-> {}],
     [name |-> "delete_asset", properties |-> {"asset_id"},
      required |-> {"asset_id"}],
     [name |-> "list_folders",
      properties |-> {"limit", "parent_id", "name_filter", "is_trash", "token"},
      required |-> {}],
     [name |-> "create_folder",
      properties |-> {"name", "project_type", "parent_id"}, required |-> {}],
     [name |-> "update_folder", properties |-> {"folder_id", "name"},
      required |-> {"folder_id", "name"}],
     [name |-> "trash_folder", properties |-> {"folder_id"},
      required |-> {"folder_id"}] >>

\* the catalog of src/src/index.ts: name, declared properties, required ones
tools ==
  << [name |-> "upload_asset", properties |-> {"file_path", "mime_type"},
      required |-> {"file_path", "mime_type"}],
     [name |-> "list_assets",
      properties |-> {"folder_id", "file_type", "limit", "token"},
      required |-> {}],
     [name |-> "delete_asset", properties |-> {"asset_id"},
      required |-> {"asset_id"}],
     [name |-> "list_folders",
      properties |-> {"limit", "parent_id", "name_filter", "is_trash", "token"},
      required |-> {}],
     [name |-> "create_folder",
      properties |-> {"name", "project_type", "parent_id"}, required |-> {}],
     [name |-> "update_folder", properties |-> {"folder_id", "name"},
      required |-> {"folder_id", "name"}],
     [name |-> "trash_folder", properties |-> {"folder_id"},
      required |-> {"folder_id"}],
     [name |-> "restore_folder", properties |-> {"folder_id"},
      required |-> {"folder_id"}] >>

\* the catalog of the earlier build
toolsLegacy ==
  << [name |-> "upload_asset", properties |-> {"file_path", "mime_type"},
      required |-> {"file_path", "mime_type"}],
     [name |-> "list_assets", properties |-> {}, required |-> {}],
     [name |-> "delete_asset", properties |-> {"asset_id"},
      required |-> {"asset_id"}],
     [name |-> "list_folders", properties |-> {}, required |-> {}],
     [name |-> "create_folder", properties |-> {"project_type"},
      required |-> {}],
     [name |-> "update_folder", properties |-> {"folder_id", "name"},
      required |-> {"folder_id", "name"}],
     [name |-> "trash_folder", properties |-> {"folder_id"},
      required |-> {"folder_id"}],
     [name |-> "restore_folder", properties |-> {"folder_id"},
      required |-> {"folder_id"}] >>

Catalog(b) == IF b = "src" THEN tools ELSE toolsLegacy

----------------------------------------------------------------------------
(* Transport adapter *)

\* headers that take a Buffer for a JSON value
RequestHeadersNoBufferTest(key, body, contentType) ==
  LET base == "X-Api-Key" :> key.s
  IN IF Truthy(contentType)
       THEN base @@ ("Content-Type" :> TemplateStr(contentType))
     ELSE IF Truthy(body) /\ TypeOf(body) = "object"
       THEN base @@ ("Content-Type" :> <<"application/json">>)
     ELSE base

\* lines 31-39: the headers of the request
RequestHeaders(key, body, contentType) ==
  LET base == "X-Api-Key" :> key.s
  IN IF Truthy(contentType)
       THEN base @@ ("Content-Type" :> TemplateStr(contentType))
     ELSE IF Truthy(body) /\ TypeOf(body) = "object" /\ ~IsBuffer(body)
       THEN base @@ ("Content-Type" :> <<"application/json">>)
     ELSE base

\* lines 46-55: options.body, Undefined when the property is not set
RequestBody(body) ==
  IF Truthy(body)
    THEN IF IsBuffer(body) THEN body
         ELSE IF TypeOf(body) = "string" THEN body
         ELSE Str(Stringify(body))
  ELSE Undefined

\* lines 25-57: what makeRequest hands to fetch
MakeRequest(key, url, method, body, contentType) ==
  [t |-> "request", url |-> url, method |-> method,
   headers |-> RequestHeaders(key, body, contentType),
   body |-> RequestBody(body)]

\* part_000 lines 30-38
RequestHeadersLegacy(key, body, contentType) ==
  LET base == "X-Api-Key" :> key.s
  IN IF Truthy(contentType)
       THEN base @@ ("Content-Type" :> TemplateStr(contentType))
     ELSE IF Truthy(body) /\ TypeOf(body) = "object"
       THEN base @@ ("Content-Type" :> <<"application/json">>)
     ELSE base

\* part_000 lines 45-47
RequestBodyLegacy(body) ==
  IF Truthy(body)
    THEN IF TypeOf(body) = "string" THEN body ELSE Str(Stringify(body))
  ELSE Undefined

\* part_000 lines 24-49
MakeRequestLegacy(key, url, method, body, contentType) ==
  [t |-> "request", url |-> url, method |-> method,
   headers |-> RequestHeadersLegacy(key, body, contentType),
   body |-> RequestBodyLegacy(body)]

\* response.ok
Ok(status) == status >= 200 /\ status <= 299

----------------------------------------------------------------------------
(* Dispatcher: the synchronous part of the call-tool handler, up to its    *)
(* first await.  It ends in a return, a throw, or a call of makeRequest.   *)

\* reads counts the files readFileSync opened, file is what it met there
Returned(resp) == [k |-> "return", resp |-> resp, reads |-> 0, file |-> None]
Thrown(msg, reads, file) ==
  [k |-> "throw", msg |-> msg, reads |-> reads, file |-> file]
Requests(url, method, body, contentType, reads, file) ==
  [k |-> "request", url |-> url, method |-> method, body |-> body,
   contentType |-> contentType, reads |-> reads, file |-> file]

\* the success envelope: { content: [{ type: "text", text }] }
TextResponse(text) == [isError |-> FALSE, text |-> text]
\* the error envelope: { content: [{ type: "text", text }], isError: true }
ErrorResponse(text) == [isError |-> TRUE, text |-> text]

\* property lookup args[k]; a missing key reads as undefined
Prop(args, k) ==
  IF args.t # "object" THEN Undefined
  ELSE LET hits == SelectSeq(args.fields, LAMBDA kv : kv[1] = k)
       IN IF hits = <<>> THEN Undefined ELSE hits[1][2]

\* const { ... } = args throws a TypeError for undefined and null
CanDestructure(args) == args.t \notin {"undefined", "null"}

DestructureError(k, args) ==
  <<"Cannot destructure property '", k, "' of 'args' as it is ">>
    \o TemplateStr(args) \o <<".">>

\* x.toString() on null
NullMethodError(m) ==
  <<"Cannot read properties of null (reading '", m, "')">>

\* readFileSync(path) of a missing file
NoEntryError(path) ==
  <<"ENOENT: no such file or directory, open '">> \o path \o <<"'">>

\* readFileSync(path) with a path that is no string
PathTypeError(path) ==
  <<"The \"path\" argument must be of type string or an instance of Buffer or URL. Received ">>
    \o TemplateStr(path)

\* a parameter test that drops every falsy value
IsSuppliedTruthy(v) == Truthy(v)

\* lines 332, 379, 382: x !== undefined
IsSupplied(v) == v # Undefined

\* lines 293-308
CaseUploadAsset(args, rd) ==
  IF ~CanDestructure(args) THEN Thrown(DestructureError("file_path", args), 0, None)
  ELSE LET file_path == Prop(args, "file_path")
           mime_type == Prop(args, "mime_type")
       IN IF file_path.t # "string" THEN Thrown(PathTypeError(file_path), 0, None)
          ELSE IF ~rd.ok THEN Thrown(NoEntryError(file_path.s), 1, rd)
          ELSE Requests(UPLOAD_BASE_URL \o <<"/", "asset">>, "POST",
                        Buf(rd.bytes), mime_type, 1, rd)

\* lines 320-340
CaseListAssets(args) ==
  IF ~CanDestructure(args) THEN Thrown(DestructureError("folder_id", args), 0, None)
  ELSE LET folder_id == Prop(args, "folder_id")
           file_type == Prop(args, "file_type")
           limit == Prop(args, "limit")
           token == Prop(args, "token")
           q0 == <<>>
           q1 == IF Truthy(folder_id)
                   THEN Append_(q0, "folder_id", TemplateStr(folder_id)) ELSE q0
           q2 == IF Truthy(file_type)
                   THEN Append_(q1, "file_type", TemplateStr(file_type)) ELSE q1
           q3 == IF IsSupplied(limit)
                   THEN Append_(q2, "limit", TemplateStr(limit)) ELSE q2
           q4 == IF Truthy(token)
                   THEN Append_(q3, "token", TemplateStr(token)) ELSE q3
           queryString == QueryToString(q4)
           base == API_BASE_URL \o <<"/", "asset", "/", "list">>
           url == IF Len(queryString) > 0
                    THEN base \o <<"?">> \o queryString ELSE base
       IN IF IsSupplied(limit) /\ limit = Null
            THEN Thrown(NullMethodError("toString"), 0, None)
          ELSE Requests(url, "GET", Undefined, Undefined, 0, None)

\* lines 351-356
CaseDeleteAsset(args) ==
  IF ~CanDestructure(args) THEN Thrown(DestructureError("asset_id", args), 0, None)
  ELSE LET asset_id == Prop(args, "asset_id")
       IN Requests(API_BASE_URL \o <<"/", "asset", "/">> \o TemplateStr(asset_id)
                     \o <<"/", "delete">>,
                   "POST", Undefined, Undefined, 0, None)

\* lines 368-391
CaseListFolders(args) ==
  IF ~CanDestructure(args) THEN Thrown(DestructureError("limit", args), 0, None)
  ELSE LET limit == Prop(args, "limit")
           parent_id == Prop(args, "parent_id")
           name_filter == Prop(args, "name_filter")
           is_trash == Prop(args, "is_trash")
           token == Prop(args, "token")
           q0 == <<>>
           q1 == IF IsSupplied(limit)
                   THEN Append_(q0, "limit", TemplateStr(limit)) ELSE q0
           q2 == IF Truthy(parent_id)
                   THEN Append_(q1, "parent_id", TemplateStr(parent_id)) ELSE q1
           q3 == IF Truthy(name_filter)
                   THEN Append_(q2, "name_filter", TemplateStr(name_filter)) ELSE q2
           q4 == IF IsSupplied(is_trash)
                   THEN Append_(q3, "is_trash", TemplateStr(is_trash)) ELSE q3
           q5 == IF Truthy(token)
                   THEN Append_(q4, "token", TemplateStr(token)) ELSE q4
           queryString == QueryToString(q5)
           base == API_BASE_URL \o <<"/", "folders">>
           url == IF Len(queryString) > 0
                    THEN base \o <<"?">> \o queryString ELSE base
       IN IF (IsSupplied(limit) /\ limit = Null)
               \/ (IsSupplied(is_trash) /\ is_trash = Null)
            THEN Thrown(NullMethodError("toString"), 0, None)
          ELSE Requests(url, "GET", Undefined, Undefined, 0, None)

\* lines 402-421
CaseCreateFolder(args) ==
  IF ~CanDestructure(args) THEN Thrown(DestructureError("name", args), 0, None)
  ELSE LET name == Prop(args, "name")
           project_type == IF Prop(args, "project_type") = Undefined
                             THEN Str(<<"mixed">>)
                           ELSE Prop(args, "project_type")
           parent_id == Prop(args, "parent_id")
           b0 == << <<"project_type", project_type>> >>
           b1 == IF Truthy(name) THEN Append(b0, <<"name", name>>) ELSE b0
           b2 == IF Truthy(parent_id)
                   THEN Append(b1, <<"parent_id", parent_id>>) ELSE b1
       IN Requests(API_BASE_URL \o <<"/", "folders", "/", "create">>, "POST",
                   Obj(b2), Undefined, 0, None)

\* lines 432-439
CaseUpdateFolder(args) ==
  IF ~CanDestructure(args) THEN Thrown(DestructureError("folder_id", args), 0, None)
  ELSE LET folder_id == Prop(args, "folder_id")
           name == Prop(args, "name")
       IN Requests(API_BASE_URL \o <<"/", "folders", "/">> \o TemplateStr(folder_id),
                   "POST", Obj(<< <<"name", name>> >>),
                   Str(<<"application/json">>), 0, None)

\* a trash_folder that remembers the folder it trashed last
CaseTrashFolderRemembering(args) ==
  IF ~CanDestructure(args) THEN Thrown(DestructureError("folder_id", args), 0, None)
  ELSE IF prev # None /\ prev.name = "trash_folder" /\ prev.args = args
            /\ ~prev.out.isError
    THEN Returned(TextResponse(<<"already in trash">>))
  ELSE LET folder_id == Prop(args, "folder_id")
       IN Requests(API_BASE_URL \o <<"/", "folders", "/">> \o TemplateStr(folder_id)
                     \o <<"/", "trash">>,
                   "POST", Undefined, Undefined, 0, None)

\* lines 450-455
CaseTrashFolder(args) ==
  IF ~CanDestructure(args) THEN Thrown(DestructureError("folder_id", args), 0, None)
  ELSE LET folder_id == Prop(args, "folder_id")
       IN Requests(API_BASE_URL \o <<"/", "folders", "/">> \o TemplateStr(folder_id)
                     \o <<"/", "trash">>,
                   "POST", Undefined, Undefined, 0, None)

\* lines 466-471
CaseRestoreFolder(args) ==
  IF ~CanDestructure(args) THEN Thrown(DestructureError("folder_id", args), 0, None)
  ELSE LET folder_id == Prop(args, "folder_id")
       IN Requests(API_BASE_URL \o <<"/", "folders", "/">> \o TemplateStr(folder_id)
                     \o <<"/", "restore">>,
                   "POST", Undefined, Undefined, 0, None)

\* a default case that throws instead of answering
CaseDefaultThrows(name) == Thrown(<<"Unknown tool: ", name>>, 0, None)

\* lines 482-491
CaseDefault(name) == Returned(ErrorResponse(<<"Unknown tool: ", name>>))

\* lines 291-492: switch (name)
Dispatch(name, args, rd) ==
  CASE name = "upload_asset" -> CaseUploadAsset(args, rd)
    [] name = "list_assets" -> CaseListAssets(args)
    [] name = "delete_asset" -> CaseDeleteAsset(args)
    [] name = "list_folders" -> CaseListFolders(args)
    [] name = "create_folder" -> CaseCreateFolder(args)
    [] name = "update_folder" -> CaseUpdateFolder(args)
    [] name = "trash_folder" -> CaseTrashFolder(args)
    [] name = "restore_folder" -> CaseRestoreFolder(args)
    [] OTHER -> CaseDefault(name)

\* a catch block that forgets the error flag
CatchResponseUnflagged(msg) == TextResponse(<<"Error: ">> \o msg)

\* lines 493-503: catch (error)
CatchResponse(msg) == ErrorResponse(<<"Error: ">> \o msg)

----------------------------------------------------------------------------
(* Dispatcher of the earlier build (src/unnamed/part_000) *)

\* part_000 lines 214-242: upload_asset answers with instructions
CaseUploadAssetLegacy(key, args) ==
  IF ~CanDestructure(args) THEN Thrown(DestructureError("file_path", args), 0, None)
  ELSE LET file_path == Prop(args, "file_path")
           mime_type == Prop(args, "mime_type")
       IN Returned(TextResponse(
            <<"To upload an asset, you need to:\n1. Read the file at: ">>
              \o TemplateStr(file_path)
              \o <<"\n2. Send a POST request to: ">> \o UPLOAD_BASE_URL \o <<"/", "asset">>
              \o <<"\n3. Set Content-Type header to: ">> \o TemplateStr(mime_type)
              \o <<"\n4. Send the raw binary data as the request body\n\nNote: File upload requires reading binary data which is not yet implemented in this tool.\nYou can use the following curl command as reference:\n\ncurl -X POST \"">>
              \o UPLOAD_BASE_URL \o <<"/", "asset">>
              \o <<"\" \\\n  -H \"X-Api-Key: ">> \o TemplateStr(key)
              \o <<"\" \\\n  -H \"Content-Type: ">> \o TemplateStr(mime_type)
              \o <<"\" \\\n  --data-binary \"@">> \o TemplateStr(file_path) \o <<"\"">>))

\* part_000 lines 244-248
CaseListAssetsLegacy ==
  Requests(API_BASE_URL \o <<"/", "asset", "/", "list">>, "GET",
           Undefined, Undefined, 0, None)

\* part_000 lines 276-277
CaseListFoldersLegacy ==
  Requests(API_BASE_URL \o <<"/", "folders">>, "GET", Undefined, Undefined, 0, None)

\* part_000 lines 288-294
CaseCreateFolderLegacy(args) ==
  IF ~CanDestructure(args) THEN Thrown(DestructureError("project_type", args), 0, None)
  ELSE LET project_type == IF Prop(args, "project_type") = Undefined
                             THEN Str(<<"mixed">>)
                           ELSE Prop(args, "project_type")
       IN Requests(API_BASE_URL \o <<"/", "folders", "/", "create">>, "POST",
                   Obj(<< <<"project_type", project_type>> >>), Undefined, 0, None)

\* part_000 lines 212-365: switch (name)
DispatchLegacy(key, name, args) ==
  CASE name = "upload_asset" -> CaseUploadAssetLegacy(key, args)
    [] name = "list_assets" -> CaseListAssetsLegacy
    [] name = "delete_asset" -> CaseDeleteAsset(args)
    [] name = "list_folders" -> CaseListFoldersLegacy
    [] name = "create_folder" -> CaseCreateFolderLegacy(args)
    [] name = "update_folder" -> CaseUpdateFolder(args)
    [] name = "trash_folder" -> CaseTrashFolder(args)
    [] name = "restore_folder" -> CaseRestoreFolder(args)
    [] OTHER -> CaseDefault(name)

----------------------------------------------------------------------------
(* Environment: the caller's inputs, the file system and the upstream API  *)

ToolNames == {"upload_asset", "list_assets", "delete_asset", "list_folders",
              "create_folder", "update_folder", "trash_folder", "restore_folder"}
UnknownNames == {"", "Upload_Asset", "purge_assets"}
Names == ToolNames \cup UnknownNames

EnvValues == {Undefined, Str(<<>>), Str(<<"sk-heygen-1">>)}

QueryStrings == {Undefined, Str(<<>>), Str(<<"a", " ", "&", "b">>)}
Identifiers == {Undefined, Str(<<"f1">>), Str(<<"f1", "/", "trash">>),
                Str(<<"x", "?", "y">>)}
Limits == {Undefined, Null, Num(0), Num(5)}
Flags == {Undefined, Null, Bool(FALSE), Bool(TRUE)}
FolderNames == {Undefined, Str(<<>>), Str(<<"My", " ", "\"", "clips", "\"">>)}
ProjectTypes == {Undefined, Null, Str(<<>>), Str(<<"video">>)}
FilePaths == {Undefined, Str(<<"/tmp/clip.mp4">>)}
MimeTypes == {Undefined, Str(<<>>), Str(<<"video/mp4">>), Str(<<"text/x-unlisted">>)}

\* all field lists over a list of <<key, candidate values>>; an undefined
\* candidate leaves the key out
RECURSIVE Bags(_)
Bags(spec) ==
  IF spec = <<>> THEN {<<>>}
  ELSE {IF v = Undefined THEN r ELSE << <<Head(spec)[1], v>> >> \o r :
          v \in Head(spec)[2], r \in Bags(Tail(spec))}

ArgSpec(name) ==
  CASE name = "upload_asset" ->
         << <<"file_path", FilePaths>>, <<"mime_type", MimeTypes>> >>
    [] name = "list_assets" ->
         << <<"folder_id", QueryStrings>>, <<"file_type", QueryStrings>>,
            <<"limit", Limits>>, <<"token", QueryStrings>> >>
    [] name = "delete_asset" -> << <<"asset_id", Identifiers>> >>
    [] name = "list_folders" ->
         << <<"limit", Limits>>, <<"parent_id", QueryStrings>>,
            <<"name_filter", QueryStrings>>, <<"is_trash", Flags>>,
            <<"token", QueryStrings>> >>
    [] name = "create_folder" ->
         << <<"name", FolderNames>>, <<"project_type", ProjectTypes>>,
            <<"parent_id", QueryStrings>> >>
    [] name = "update_folder" ->
         << <<"folder_id", Identifiers>>, <<"name", FolderNames>> >>
    [] name = "trash_folder" -> << <<"folder_id", Identifiers>> >>
    [] name = "restore_folder" -> << <<"folder_id", Identifiers>> >>
    [] OTHER -> << >>

\* request.params.arguments: absent, or an object
ArgBags(name) == {Undefined} \cup {Obj(f) : f \in Bags(ArgSpec(name))}

\* concurrent dispatch and sequences of invocations are explored over few
\* inputs: two folder tools and an unknown tool, called without arguments
\* or with one folder, and in sequences the upload of one path
NamesIn(sc) ==
  IF sc \in {"concurrent", "history"}
    THEN {"trash_folder", "restore_folder", "upload_asset", "purge_assets"}
  ELSE Names

ArgBagsIn(sc, name) ==
  IF sc \in {"concurrent", "history"}
    THEN {Undefined} \cup
         (IF name = "upload_asset"
            THEN {Obj(<< <<"file_path", Str(<<"/tmp/clip.mp4">>)>> >>)}
          ELSE IF name \in ToolNames
            THEN {Obj(<< <<"folder_id", Str(<<"f1">>)>> >>)}
          ELSE {})
  ELSE ArgBags(name)

Bytes == {0, 255}
RECURSIVE ByteSeqs(_)
ByteSeqs(n) ==
  IF n = 0 THEN {<<>>}
  ELSE ByteSeqs(n - 1) \cup
       {Append(b, x) : b \in {c \in ByteSeqs(n - 1) : Len(c) = n - 1}, x \in Bytes}

Unreadable == [t |-> "file", ok |-> FALSE, bytes |-> <<>>]
ReadOutcomes ==
  {Unreadable} \cup {[t |-> "file", ok |-> TRUE, bytes |-> b] : b \in ByteSeqs(MaxFileLen)}

\* only upload_asset of the current build reaches the file system
ReadChoices(b, name, args) ==
  IF b = "src" /\ name = "upload_asset" /\ Prop(args, "file_path").t = "string"
    THEN ReadOutcomes ELSE {Unreadable}

\* JSON documents the upstream service answers with
Documents ==
  { Obj(<< <<"error", Str(<<"not", " ", "found">>)>> >>),
    Obj(<< <<"data", Obj(<< <<"id", Str(<<"a1">>)>> >>)>> >>) }

NotFoundBody == Stringify(Obj(<< <<"error", Str(<<"not", " ", "found">>)>> >>))

\* raw response bodies: the documents on the wire, an HTML page, nothing
RawBodies == {Stringify(d) : d \in Documents} \cup {<<"<html>">>, <<>>}
Statuses == {200, 404, 502}

NetworkFailure == [t |-> "failure", status |-> 0, raw |-> <<"ECONNREFUSED">>]
Replies == {NetworkFailure} \cup
           {[t |-> "response", status |-> st, raw |-> raw] :
              st \in Statuses, raw \in RawBodies}

\* with few inputs the file is missing, empty or one byte long
ReadChoicesIn(sc, b, name, args) ==
  IF sc \in {"concurrent", "history"}
    THEN {rd \in ReadChoices(b, name, args) : Len(rd.bytes) <= 1}
  ELSE ReadChoices(b, name, args)

RepliesIn(sc) ==
  IF sc \in {"concurrent", "history"}
    THEN {NetworkFailure, [t |-> "response", status |-> 200, raw |-> NotFoundBody],
          [t |-> "response", status |-> 404, raw |-> NotFoundBody]}
  ELSE Replies

\* response.json(): the document whose serialisation is the raw body
ParseJson(raw) ==
  IF \E d \in Documents : Stringify(d) = raw
    THEN [ok |-> TRUE, data |-> CHOOSE d \in Documents : Stringify(d) = raw]
  ELSE [ok |-> FALSE, data |-> Null]

\* node-fetch: FetchError of a failed request
FetchFailedError(url, reason) ==
  <<"request to ">> \o url \o <<" failed, reason: ">> \o reason

\* node-fetch: FetchError of response.json()
InvalidJsonError(url) ==
  <<"invalid json response body at ">> \o url \o <<" reason: Unexpected token">>

\* lines 60-64
ApiRequestFailedError(status, data) ==
  <<"API request failed: ", ToString(status), " - ">> \o Stringify(data)

----------------------------------------------------------------------------
(* The process *)

Idle == [st |-> "idle", name |-> "", args |-> Undefined, reads |-> 0,
         file |-> None, fetches |-> 0, req |-> None, res |-> None, out |-> None]

NoServer == [created |-> FALSE, handlers |-> {}, connected |-> FALSE]

InitCommon ==
  /\ env \in EnvValues
  /\ API_KEY = Undefined
  /\ pc = "load"
  /\ stderr = <<>>
  /\ exitCode = -1
  /\ server = NoServer
  /\ listing = <<>>
  /\ calls = [i \in Slots |-> Idle]
  /\ prev = None

Init == build = "src" /\ scope = "sequential" /\ InitCommon
InitLegacy == build = "legacy" /\ scope = "sequential" /\ InitCommon
InitConcurrent == build = "src" /\ scope = "concurrent" /\ InitCommon
InitHistory == build = "src" /\ scope = "history" /\ InitCommon

\* a credential test that lets the empty string through
HasCredentialDefined(key) == key # Undefined

\* line 15: !API_KEY
HasCredential(key) == Truthy(key)

\* lines 13-18: capture the credential, exit(1) without it
LoadApiKey ==
  /\ pc = "load"
  /\ API_KEY' = env
  /\ IF ~HasCredential(env)
       THEN /\ stderr' = Append(stderr, "Error: HEYGEN_API_KEY environment variable is required")
            /\ exitCode' = 1
            /\ pc' = "exited"
       ELSE /\ pc' = "loaded"
            /\ UNCHANGED <<stderr, exitCode>>
  /\ UNCHANGED <<build, scope, env, server, listing, calls, prev>>

\* lines 269-504: new Server(...) and the two setRequestHandler calls
CreateServer ==
  /\ pc = "loaded"
  /\ server' = [created |-> TRUE, handlers |-> {"tools/list", "tools/call"},
                connected |-> FALSE]
  /\ pc' = "created"
  /\ UNCHANGED <<build, scope, env, API_KEY, stderr, exitCode, listing, calls, prev>>

\* lines 507-511: main() connects the stdio transport
Main ==
  /\ pc = "created"
  /\ server' = [server EXCEPT !.connected = TRUE]
  /\ stderr' = Append(stderr, "HeyGen MCP Server running on stdio")
  /\ pc' = "serving"
  /\ UNCHANGED <<build, scope, env, API_KEY, exitCode, listing, calls, prev>>

\* lines 513-516: main() rejected
MainFails ==
  /\ pc = "created"
  /\ stderr' = Append(stderr, "Fatal error in main():")
  /\ exitCode' = 1
  /\ pc' = "exited"
  /\ UNCHANGED <<build, scope, env, API_KEY, server, listing, calls, prev>>

\* lines 282-284
ListTools ==
  /\ pc = "serving"
  /\ "tools/list" \in server.handlers
  /\ listing' = Catalog(build)
  /\ UNCHANGED <<build, scope, env, API_KEY, pc, stderr, exitCode, server, calls, prev>>

\* the handler after Dispatch ended in d: when d is a call of makeRequest,
\* the request is handed to fetch and the handler suspends
StartCall(b, key, name, args, d) ==
  CASE d.k = "return" ->
         [Idle EXCEPT !.name = name, !.args = args, !.reads = d.reads, !.file = d.file,
                      !.st = "done", !.out = d.resp]
    [] d.k = "throw" ->
         [Idle EXCEPT !.name = name, !.args = args, !.reads = d.reads, !.file = d.file,
                      !.st = "done", !.out = CatchResponse(d.msg)]
    [] OTHER ->
         [Idle EXCEPT !.name = name, !.args = args, !.reads = d.reads, !.file = d.file,
                      !.st = "fetching", !.fetches = 1,
                      !.req = IF b = "src"
                                THEN MakeRequest(key, d.url, d.method, d.body, d.contentType)
                              ELSE MakeRequestLegacy(key, d.url, d.method, d.body, d.contentType)]

\* lines 287-492 up to `await fetch(...)` (line 57), for a request with
\* params.name = name and params.arguments = args, rd being what
\* readFileSync meets
CallTool(i) ==
  /\ pc = "serving"
  /\ "tools/call" \in server.handlers
  /\ calls[i].st = "idle"
  /\ scope # "concurrent" => (i = 1 /\ \A j \in Slots : calls[j].st = "idle")
  /\ \E name \in NamesIn(scope) :
       \E args \in ArgBagsIn(scope, name) :
         \E rd \in ReadChoicesIn(scope, build, name, args) :
           \E d \in {IF build = "src" THEN Dispatch(name, args, rd)
                     ELSE DispatchLegacy(API_KEY, name, args)} :
             calls' = [calls EXCEPT ![i] = StartCall(build, API_KEY, name, args, d)]
  /\ UNCHANGED <<build, scope, env, API_KEY, pc, stderr, exitCode, server, listing, prev>>

\* a transport that issues the request again after a network failure
AfterFetchRetrying(c, reply) ==
  IF reply.t = "failure" /\ c.fetches < 2
    THEN [c EXCEPT !.fetches = c.fetches + 1]
  ELSE IF reply.t = "failure"
    THEN [c EXCEPT !.st = "done", !.res = reply,
                   !.out = CatchResponse(FetchFailedError(c.req.url, reply.raw))]
  ELSE [c EXCEPT !.st = "parsing", !.res = reply]

\* the call after fetch settled: a rejection reaches the catch block, a
\* response is handed to response.json()
AfterFetch(c, reply) ==
  IF reply.t = "failure"
    THEN [c EXCEPT !.st = "done", !.res = reply,
                   !.out = CatchResponse(FetchFailedError(c.req.url, reply.raw))]
  ELSE [c EXCEPT !.st = "parsing", !.res = reply]

\* line 57: fetch settles
FetchSettles(i, reply) ==
  /\ pc = "serving"
  /\ calls[i].st = "fetching"
  /\ reply \in RepliesIn(scope)
  /\ calls' = [calls EXCEPT ![i] = AfterFetch(calls[i], reply)]
  /\ UNCHANGED <<build, scope, env, API_KEY, pc, stderr, exitCode, server, listing, prev>>

\* a makeRequest whose response and data are module-level variables,
\* overwritten by whichever invocation received a response first
AfterJsonSharedData(c, parsed) ==
  LET j == CHOOSE j \in Slots : calls[j].res # None /\ calls[j].res.t = "response"
      data == ParseJson(calls[j].res.raw)
  IN IF ~data.ok
       THEN [c EXCEPT !.st = "done",
                      !.out = CatchResponse(InvalidJsonError(c.req.url))]
     ELSE IF ~Ok(calls[j].res.status)
       THEN [c EXCEPT !.st = "done",
                      !.out = CatchResponse(ApiRequestFailedError(calls[j].res.status, data.data))]
     ELSE [c EXCEPT !.st = "done",
                    !.out = TextResponse(StringifyPretty(data.data))]

\* lines 58-66 and the handler's return or catch, parsed being the outcome
\* of response.json()
AfterJson(c, parsed) ==
  IF ~parsed.ok
    THEN [c EXCEPT !.st = "done",
                   !.out = CatchResponse(InvalidJsonError(c.req.url))]
  ELSE IF ~Ok(c.res.status)
    THEN [c EXCEPT !.st = "done",
                   !.out = CatchResponse(ApiRequestFailedError(c.res.status, parsed.data))]
  ELSE [c EXCEPT !.st = "done",
                 !.out = TextResponse(StringifyPretty(parsed.data))]

\* line 58: response.json() settles
JsonSettles(i) ==
  /\ pc = "serving"
  /\ calls[i].st = "parsing"
  /\ \E parsed \in {ParseJson(calls[i].res.raw)} :
       calls' = [calls EXCEPT ![i] = AfterJson(calls[i], parsed)]
  /\ UNCHANGED <<build, scope, env, API_KEY, pc, stderr, exitCode, server, listing, prev>>

\* the response envelope is written to the transport; the handler is gone
Respond(i) ==
  /\ pc = "serving"
  /\ calls[i].st = "done"
  /\ calls' = [calls EXCEPT ![i] = Idle]
  /\ prev' = IF scope = "history" THEN calls[i] ELSE prev
  /\ UNCHANGED <<build, scope, env, API_KEY, pc, stderr, exitCode, server, listing>>

Next ==
  \/ LoadApiKey
  \/ CreateServer
  \/ Main
  \/ MainFails
  \/ ListTools
  \/ \E i \in Slots : CallTool(i)
  \/ \E i \in Slots, reply \in Replies : FetchSettles(i, reply)
  \/ \E i \in Slots : JsonSettles(i)
  \/ \E i \in Slots : Respond(i)

Spec == Init /\ [][Next]_vars
SpecLegacy == InitLegacy /\ [][Next]_vars
SpecConcurrent == InitConcurrent /\ [][Next]_vars
SpecHistory == InitHistory /\ [][Next]_vars

\* the adapter on its own: makeRequest applied to any url, method, body and
\* content type, the request it hands to fetch kept in calls[1]
AdapterBodies ==
  {Undefined, Buf(<<>>), Buf(<<255>>), Buf(<<0, 255>>), Str(<<>>),
   Str(<<"raw", " ", "text">>), Obj(<<>>), Obj(<< <<"name", Str(<<"n">>)>> >>)}
AdapterContentTypes ==
  {Undefined, Str(<<>>), Str(<<"application/json">>), Str(<<"video/mp4">>)}
AdapterMethods == {"GET", "POST"}
AdapterUrls == {UPLOAD_BASE_URL \o <<"/", "asset">>, API_BASE_URL \o <<"/", "folders">>}

InitAdapter ==
  /\ build = "src"
  /\ scope = "sequential"
  /\ env \in {e \in EnvValues : HasCredential(e)}
  /\ API_KEY = env
  /\ pc = "adapter"
  /\ stderr = <<>>
  /\ exitCode = -1
  /\ server = NoServer
  /\ listing = <<>>
  /\ calls = [i \in Slots |-> Idle]
  /\ prev = None

\* lines 25-57: one call of makeRequest, up to fetch
ApplyMakeRequest(url, method, body, contentType) ==
  /\ pc = "adapter"
  /\ calls' = [calls EXCEPT ![1] =
                 [Idle EXCEPT !.st = "fetching", !.name = "makeRequest",
                              !.args = Obj(<< <<"url", Str(url)>>, <<"method", Str(<<method>>)>>,
                                              <<"body", body>>, <<"contentType", contentType>> >>),
                              !.fetches = 1,
                              !.req = MakeRequest(API_KEY, url, method, body, contentType)]]
  /\ UNCHANGED <<build, scope, env, API_KEY, pc, stderr, exitCode, server, listing, prev>>

NextAdapter ==
  \E url \in AdapterUrls, method \in AdapterMethods,
     body \in AdapterBodies, contentType \in AdapterContentTypes :
    ApplyMakeRequest(url, method, body, contentType)

SpecAdapter == InitAdapter /\ [][NextAdapter]_vars

Fairness ==
  /\ \A i \in Slots : WF_vars(\E reply \in Replies : FetchSettles(i, reply))
  /\ \A i \in Slots : WF_vars(JsonSettles(i))
  /\ \A i \in Slots : WF_vars(Respond(i))

FairSpec == Spec /\ Fairness

TypeOK ==
  /\ build \in {"src", "legacy"}
  /\ scope \in {"sequential", "concurrent", "history"}
  /\ pc \in {"load", "loaded", "created", "serving", "exited", "adapter"}
  /\ \A i \in Slots : calls[i].st \in {"idle", "fetching", "parsing", "done"}

----------------------------------------------------------------------------
(* Properties *)

ListedNames(catalog) == {catalog[i].name : i \in 1..Len(catalog)}

\* the names the switch of the running build handles with a case of its own
HandledNames ==
  {n \in Names :
     (IF build = "src" THEN Dispatch(n, Obj(<<>>), Unreadable)
      ELSE DispatchLegacy(API_KEY, n, Obj(<<>>))) # CaseDefault(n)}

UnknownToolResponse(name) == ErrorResponse(<<"Unknown tool: ", name>>)

\* C1: the names the list-tools handler returns are exactly the eight names
\* the dispatcher handles with a case of its own, in every reachable state:
\* a finished call of a listed name never got the 'Unknown tool' answer, and
\* a finished call of any other name always did.
C1_CatalogMatchesDispatcher ==
  /\ ListedNames(Catalog(build)) = HandledNames
  /\ HandledNames = ToolNames
  /\ listing # <<>> => ListedNames(listing) = HandledNames
  /\ \A i \in Slots :
       calls[i].st = "done" =>
         (calls[i].name \in ListedNames(Catalog(build))
            <=> calls[i].out # UnknownToolResponse(calls[i].name))

C1_Witness ==
  /\ listing # <<>>
  /\ calls[1].st = "done"
  /\ calls[1].name = "restore_folder"
  /\ ~calls[1].out.isError

IsEnvelope(r) ==
  /\ DOMAIN r = {"isError", "text"}
  /\ r.isError \in BOOLEAN
  /\ Len(r.text) > 0

\* the failure an invocation met, as its message, or <<>> when it met none
FailureOf(c) ==
  IF c.name \notin ToolNames THEN <<>>
  ELSE IF c.req = None /\ c.args = Undefined
    THEN <<"Cannot destructure property '">>
  ELSE IF c.req = None /\ Prop(c.args, "limit") = Null
    THEN <<"Cannot read properties of null (reading '">>
  ELSE IF c.req = None /\ c.name = "upload_asset" /\ c.reads = 1
    THEN <<"ENOENT: no such file or directory, open '">>
  ELSE IF c.req = None /\ c.name = "upload_asset"
    THEN <<"The \"path\" argument must be of type string or an instance of Buffer or URL. Received ">>
  ELSE IF c.res # None /\ c.res.t = "failure"
    THEN <<"request to ">>
  ELSE IF c.res # None /\ c.res.raw \in {<<"<html>">>, <<>>}
    THEN <<"invalid json response body at ">>
  ELSE IF c.res # None /\ c.res.status \notin 200..299
    THEN <<"API request failed: ">>
  ELSE <<>>

C2_OneEnvelope ==
  \A i \in Slots :
    /\ calls[i].st \in {"idle", "fetching", "parsing"} => calls[i].out = None
    /\ calls[i].st = "done" =>
         /\ IsEnvelope(calls[i].out)
         /\ FailureOf(calls[i]) # <<>> =>
              /\ calls[i].out.isError
              /\ SubSeq(calls[i].out.text, 1, 2) = <<"Error: ">> \o FailureOf(calls[i])

\* C2: every invocation, whatever its name and argument bag, ends with
\* exactly one response envelope; a failure of destructuring, of the file
\* read, of the HTTP call or of parsing becomes an isError response whose
\* text is 'Error: ' and the failure's message, and the server is idle again
\* afterwards.
C2_EveryInvocationAnswered ==
  /\ []C2_OneEnvelope
  /\ \A i \in Slots : (calls[i].st # "idle") ~> (calls[i].st = "done")
  /\ \A i \in Slots : (calls[i].st = "done") ~> (calls[i].st = "idle")

C2_Witness ==
  /\ calls[1].st = "done"
  /\ calls[1].name = "list_assets"
  /\ calls[1].args = Undefined
  /\ calls[1].out.isError

\* C3: a name outside the catalog is answered with isError and the text
\* 'Unknown tool: <name>', with no outbound request and no file read, by a
\* return and not by a throw, and the server goes on serving.
C3_UnknownToolAnswered ==
  \A i \in Slots :
    (calls[i].st # "idle" /\ calls[i].name \notin ToolNames) =>
      /\ calls[i].st = "done"
      /\ calls[i].out = [isError |-> TRUE, text |-> <<"Unknown tool: ", calls[i].name>>]
      /\ calls[i].fetches = 0
      /\ calls[i].reads = 0
      /\ calls[i].req = None
      /\ pc = "serving"
      /\ exitCode = -1

C3_Witness ==
  /\ calls[1].st = "done"
  /\ calls[1].name = "purge_assets"
  /\ calls[1].args = Undefined

\* C4 (as claimed): every answer to a non-2xx upstream response, whatever
\* its body, is flagged isError and its text contains the status code and
\* the response body.
C4_StatusAndBodyInErrorText ==
  \A i \in Slots :
    (calls[i].st = "done" /\ calls[i].res # None /\ calls[i].res.t = "response"
       /\ ~(calls[i].res.status \in 200..299)) =>
      /\ calls[i].out.isError
      /\ Contains(calls[i].out.text, <<ToString(calls[i].res.status)>>)
      /\ Contains(calls[i].out.text, calls[i].res.raw)

----------------------------------------------------------------------------
(* The query string as the upstream service reads it *)

IndexOf(s, tok) ==
  IF HasToken(s, tok)
    THEN CHOOSE i \in 1..Len(s) : s[i] = tok /\ \A j \in 1..(i - 1) : s[j] # tok
  ELSE 0

RECURSIVE SplitOn(_, _)
SplitOn(s, sep) ==
  IF IndexOf(s, sep) = 0 THEN <<s>>
  ELSE <<SubSeq(s, 1, IndexOf(s, sep) - 1)>>
         \o SplitOn(SubSeq(s, IndexOf(s, sep) + 1, Len(s)), sep)

FormDecodeToken(tok) ==
  CASE tok = "+" -> " "
    [] tok = "%26" -> "&"
    [] tok = "%3D" -> "="
    [] tok = "%2F" -> "/"
    [] tok = "%3F" -> "?"
    [] tok = "%23" -> "#"
    [] tok = "%2B" -> "+"
    [] tok = "%25" -> "%"
    [] tok = "%22" -> "\""
    [] OTHER -> tok

FormDecode(s) == [i \in 1..Len(s) |-> FormDecodeToken(s[i])]

\* the text after the first "?" of a URL
QueryText(url) ==
  IF IndexOf(url, "?") = 0 THEN <<>>
  ELSE SubSeq(url, IndexOf(url, "?") + 1, Len(url))

\* the key=value pairs of a URL, decoded; a pair without "=" has value <<>>
QueryPairs(url) ==
  IF QueryText(url) = <<>> THEN <<>>
  ELSE LET parts == SplitOn(QueryText(url), "&")
       IN [i \in 1..Len(parts) |->
             IF IndexOf(parts[i], "=") = 0 THEN <<FormDecode(parts[i]), <<>> >>
             ELSE <<FormDecode(SubSeq(parts[i], 1, IndexOf(parts[i], "=") - 1)),
                    FormDecode(SubSeq(parts[i], IndexOf(parts[i], "=") + 1, Len(parts[i])))>>]

QueryHas(url, k) ==
  \E i \in 1..Len(QueryPairs(url)) : QueryPairs(url)[i][1] = <<k>>

\* the values sent for k
QueryValues(url, k) ==
  {QueryPairs(url)[i][2] : i \in {j \in 1..Len(QueryPairs(url)) : QueryPairs(url)[j][1] = <<k>>}}

ListTools_ == {"list_assets", "list_folders"}

\* the optional parameters the catalog declares for a tool
DeclaredParams(name) ==
  (CHOOSE d \in {tools[i] : i \in 1..Len(tools)} : d.name = name).properties

\* C5 (as claimed): in the GET of list_assets and list_folders a parameter
\* is in the query string exactly when the arguments supply it, with the
\* supplied value, empty strings, 0 and false included; with nothing
\* supplied the URL has no '?'.
C5_SuppliedIffSent ==
  \A i \in Slots :
    (calls[i].name \in ListTools_ /\ calls[i].req # None) =>
      /\ \A k \in DeclaredParams(calls[i].name) :
           /\ QueryHas(calls[i].req.url, k) <=> Prop(calls[i].args, k) # Undefined
           /\ Prop(calls[i].args, k) # Undefined =>
                QueryValues(calls[i].req.url, k) = {TemplateStr(Prop(calls[i].args, k))}
      /\ (\A k \in DeclaredParams(calls[i].name) : Prop(calls[i].args, k) = Undefined)
           => ~HasToken(calls[i].req.url, "?")

\* what the handler takes for supplied: limit and is_trash when not
\* undefined, the string parameters when not empty
Sent(k, v) == IF k \in {"limit", "is_trash"} THEN v # Undefined ELSE Truthy(v)

\* C5 (amended): in every GET that list_assets or list_folders issues,
\* limit and is_trash are in the query string exactly when supplied (0 and
\* false included), the string parameters exactly when supplied and not
\* empty, each once and with the supplied value URL-encoded; when none is
\* sent the URL has no '?'.
C5_SentIffSuppliedAndMeaningful ==
  \A i \in Slots :
    (calls[i].name \in ListTools_ /\ calls[i].req # None) =>
      /\ calls[i].req.method = "GET"
      /\ calls[i].req.body = Undefined
      /\ \A k \in DeclaredParams(calls[i].name) :
           /\ QueryHas(calls[i].req.url, k) <=> Sent(k, Prop(calls[i].args, k))
           /\ Sent(k, Prop(calls[i].args, k)) =>
                QueryValues(calls[i].req.url, k) = {TemplateStr(Prop(calls[i].args, k))}
      /\ Len(QueryPairs(calls[i].req.url)) =
           Cardinality({k \in DeclaredParams(calls[i].name) : Sent(k, Prop(calls[i].args, k))})
      /\ (\A k \in DeclaredParams(calls[i].name) : ~Sent(k, Prop(calls[i].args, k)))
           => ~HasToken(calls[i].req.url, "?")

C5_Witness ==
  /\ calls[1].name = "list_folders"
  /\ calls[1].st = "fetching"
  /\ Prop(calls[1].args, "limit") = Num(0)
  /\ Prop(calls[1].args, "is_trash") = Bool(FALSE)
  /\ Prop(calls[1].args, "parent_id") = Str(<<>>)
  /\ Prop(calls[1].args, "name_filter") = Str(<<"a", " ", "&", "b">>)
  /\ Prop(calls[1].args, "token") = Undefined

----------------------------------------------------------------------------

UploadUrl == UPLOAD_BASE_URL \o <<"/", "asset">>

\* C6 (as claimed): upload_asset with a readable file and a supplied
\* mime_type reads the file and POSTs its bytes unchanged to the upload
\* endpoint with Content-Type equal to the mime_type; when the read fails
\* no request is issued and the answer is an error.
C6_UploadSendsFileBytes ==
  \A i \in Slots :
    (calls[i].name = "upload_asset" /\ calls[i].st # "idle"
       /\ Prop(calls[i].args, "file_path").t = "string"
       /\ Prop(calls[i].args, "mime_type") # Undefined) =>
      /\ calls[i].reads = 1
      /\ calls[i].file # None
      /\ calls[i].file.ok =>
           /\ calls[i].req # None
           /\ calls[i].fetches = 1
           /\ calls[i].req.method = "POST"
           /\ calls[i].req.url = UploadUrl
           /\ calls[i].req.body = Buf(calls[i].file.bytes)
           /\ Len(calls[i].req.body.bytes) = Len(calls[i].file.bytes)
           /\ "Content-Type" \in DOMAIN calls[i].req.headers
           /\ calls[i].req.headers["Content-Type"] = Prop(calls[i].args, "mime_type").s
      /\ ~calls[i].file.ok =>
           /\ calls[i].req = None
           /\ calls[i].fetches = 0
           /\ calls[i].out.isError

CreateUrl == API_BASE_URL \o <<"/", "folders", "/", "create">>

\* C7 (as claimed): create_folder with an empty or an absent argument bag
\* POSTs {"project_type":"mixed"} to /folders/create; a supplied
\* project_type, name or parent_id is carried in the body.
C7_CreateFolderDefaults ==
  \A i \in Slots :
    (calls[i].name = "create_folder" /\ calls[i].st # "idle") =>
      /\ calls[i].req # None
      /\ calls[i].fetches = 1
      /\ calls[i].req.method = "POST"
      /\ calls[i].req.url = CreateUrl
      /\ calls[i].args \in {Undefined, Obj(<<>>)} =>
           calls[i].req.body =
             Str(<<"{", "\"", "project_type", "\"", ":", "\"", "mixed", "\"", "}">>)
      /\ \A k \in {"project_type", "name", "parent_id"} :
           Prop(calls[i].args, k) # Undefined =>
             Contains(calls[i].req.body.s,
                      <<"\"", k, "\"", ":">> \o Stringify(Prop(calls[i].args, k)))

\* C8: without a credential (HEYGEN_API_KEY absent or empty) the process
\* writes the message to stderr and exits with status 1 before the server
\* is created, a handler registered or the transport connected; no
\* list-tools or call-tool request is handled and no request is issued.
C8_NoCredentialNoService ==
  ~Truthy(env) =>
    /\ pc \in {"load", "exited"}
    /\ server = NoServer
    /\ listing = <<>>
    /\ \A i \in Slots : calls[i] = Idle
    /\ pc = "load" => (exitCode = -1 /\ stderr = <<>>)
    /\ pc = "exited" =>
         /\ exitCode = 1
         /\ stderr = <<"Error: HEYGEN_API_KEY environment variable is required">>

C8_Witness ==
  /\ pc = "exited"
  /\ env = Str(<<>>)
  /\ exitCode = 1

\* the case in which C9 expects a request
ToolArgsAndFileFine(c) ==
  /\ c.name \in ToolNames
  /\ c.args.t = "object"
  /\ c.name = "upload_asset" => (c.file # None /\ c.file.ok)

\* C9 (as claimed): an invocation issues at most one outbound request and
\* never a second one: exactly one when the tool is known, the arguments
\* destructure and the upload's file read succeeds, none otherwise.
C9_OneRequestPerCall ==
  \A i \in Slots :
    /\ calls[i].fetches <= 1
    /\ calls[i].req # None <=> calls[i].fetches = 1
    /\ calls[i].st # "idle" =>
         (calls[i].fetches = 1 <=> ToolArgsAndFileFine(calls[i]))

NullQueryParam(c) ==
  /\ c.name \in ListTools_
  /\ Prop(c.args, "limit") = Null \/ Prop(c.args, "is_trash") = Null

\* C9 (amended): an invocation issues at most one outbound request and
\* never a second one: exactly one when the tool is known, the arguments
\* destructure, no limit or is_trash of a list tool is null and the
\* upload's file read succeeds, none otherwise.
C9_OneRequestUnlessNullParam ==
  \A i \in Slots :
    /\ calls[i].fetches <= 1
    /\ calls[i].req # None <=> calls[i].fetches = 1
    /\ calls[i].st # "idle" =>
         (calls[i].fetches = 1
            <=> (ToolArgsAndFileFine(calls[i]) /\ ~NullQueryParam(calls[i])))

C9_Witness ==
  /\ calls[1].st = "done"
  /\ calls[1].res = NetworkFailure
  /\ calls[1].fetches = 1
  /\ calls[1].out.isError

\* C10 (as claimed): makeRequest uses a supplied content type verbatim;
\* without one, an object body gets application/json and is sent
\* JSON-serialised, a string or binary body is sent as it is without a
\* Content-Type; X-Api-Key is always the captured credential.
C10_EncodingTable ==
  \A i \in Slots :
    (calls[i].name = "makeRequest" /\ calls[i].req # None) =>
      LET body == Prop(calls[i].args, "body")
          ct == Prop(calls[i].args, "contentType")
          h == calls[i].req.headers
      IN /\ h["X-Api-Key"] = env.s
         /\ ct # Undefined =>
              ("Content-Type" \in DOMAIN h /\ h["Content-Type"] = ct.s)
         /\ (ct = Undefined /\ body.t = "object") =>
              /\ "Content-Type" \in DOMAIN h
              /\ h["Content-Type"] = <<"application/json">>
              /\ calls[i].req.body = Str(Stringify(body))
         /\ (ct = Undefined /\ body.t \in {"string", "buffer"}) =>
              /\ "Content-Type" \notin DOMAIN h
              /\ calls[i].req.body = body
         /\ (ct = Undefined /\ body = Undefined) =>
              /\ "Content-Type" \notin DOMAIN h
              /\ calls[i].req.body = Undefined

\* C10 (amended): makeRequest uses a supplied, non-empty content type
\* verbatim and takes an empty one for none; without one, an object body
\* gets application/json and a string or binary body no Content-Type; an
\* object body is sent JSON-serialised, a binary or non-empty string body
\* as it is, an empty string body not at all; X-Api-Key is always the
\* captured credential, and url and method are passed on unchanged.
C10_EncodingTableNonEmpty ==
  \A i \in Slots :
    (calls[i].name = "makeRequest" /\ calls[i].req # None) =>
      LET body == Prop(calls[i].args, "body")
          ct == Prop(calls[i].args, "contentType")
          h == calls[i].req.headers
          given == ct # Undefined /\ ct # Str(<<>>)
      IN /\ h["X-Api-Key"] = env.s
         /\ DOMAIN h \subseteq {"X-Api-Key", "Content-Type"}
         /\ calls[i].req.url = Prop(calls[i].args, "url").s
         /\ <<calls[i].req.method>> = Prop(calls[i].args, "method").s
         /\ given => ("Content-Type" \in DOMAIN h /\ h["Content-Type"] = ct.s)
         /\ (~given /\ body.t = "object") =>
              ("Content-Type" \in DOMAIN h /\ h["Content-Type"] = <<"application/json">>)
         /\ (~given /\ body.t # "object") => "Content-Type" \notin DOMAIN h
         /\ body.t = "object" => calls[i].req.body = Str(Stringify(body))
         /\ body = Obj(<< <<"name", Str(<<"n">>)>> >>) =>
              calls[i].req.body.s = <<"{", "\"", "name", "\"", ":", "\"", "n", "\"", "}">>
         /\ body.t = "buffer" => calls[i].req.body = body
         /\ (body.t = "string" /\ body # Str(<<>>)) => calls[i].req.body = body
         /\ body \in {Undefined, Str(<<>>)} => calls[i].req.body = Undefined

C10_Witness ==
  /\ calls[1].name = "makeRequest"
  /\ Prop(calls[1].args, "body") = Buf(<<0, 255>>)
  /\ Prop(calls[1].args, "contentType") = Undefined
  /\ calls[1].req.body = Buf(<<0, 255>>)
  /\ DOMAIN calls[1].req.headers = {"X-Api-Key"}

----------------------------------------------------------------------------

\* C11 (as claimed): a response is error-flagged only when the remote
\* operation was not carried out: a finished mutation (any tool but the two
\* list tools) whose request the upstream answered with a 2xx status has a
\* non-error response, and every finished invocation that met a failure has
\* a text response with isError = TRUE.
C11_NoErrorOnAcceptedMutation ==
  \A i \in Slots :
    calls[i].st = "done" =>
      /\ IsEnvelope(calls[i].out)
      /\ (/\ calls[i].name \in ToolNames \ ListTools_
          /\ calls[i].res # None
          /\ calls[i].res.t = "response"
          /\ Ok(calls[i].res.status)) => ~calls[i].out.isError
      /\ (calls[i].res # None /\ calls[i].res.t = "failure") => calls[i].out.isError
      /\ (calls[i].res # None /\ calls[i].res.t = "response" /\ ~Ok(calls[i].res.status))
           => calls[i].out.isError

----------------------------------------------------------------------------

\* the request a process that has handled nothing yet builds for the name,
\* the arguments and the file of c; None when it builds none
BuiltAfresh(c) ==
  StartCall(build, env, c.name, c.args,
            Dispatch(c.name, c.args, IF c.file = None THEN Unreadable ELSE c.file)).req

FolderUrl(id, verb) == API_BASE_URL \o <<"/", "folders", "/">> \o id \o <<"/", verb>>

\* trash_folder(f1) answered, then restore_folder(f1): a POST to each route
TrashThenRestore ==
  (/\ prev # None
   /\ prev.name = "trash_folder"
   /\ prev.args = Obj(<< <<"folder_id", Str(<<"f1">>)>> >>)
   /\ calls[1].name = "restore_folder"
   /\ calls[1].args = prev.args) =>
    /\ prev.fetches = 1
    /\ prev.req.method = "POST"
    /\ prev.req.url = FolderUrl(<<"f1">>, "trash")
    /\ calls[1].fetches = 1
    /\ calls[1].req.method = "POST"
    /\ calls[1].req.url = FolderUrl(<<"f1">>, "restore")
    /\ calls[1].req.headers = prev.req.headers
    /\ calls[1].req.body = Undefined

\* no invocation modifies the credential or the tool catalog
CredentialAndCatalogKept ==
  /\ pc \in {"loaded", "created", "serving"} => API_KEY = env
  /\ listing \in {<<>>, tools}

\* C12 (as claimed): the request built for an invocation is a function of its
\* tool name, its arguments and the startup credential only: an invocation
\* with the name and arguments of the one answered before it builds the same
\* request (or none, as before); trash_folder(id) then restore_folder(id)
\* issues a POST to /folders/{id}/trash and one to /folders/{id}/restore;
\* credential and catalog are never modified.
C12_RequestFromNameAndArgsOnly ==
  /\ CredentialAndCatalogKept
  /\ TrashThenRestore
  /\ \A i \in Slots :
       (prev # None /\ calls[i].st # "idle"
          /\ calls[i].name = prev.name /\ calls[i].args = prev.args) =>
         calls[i].req = prev.req

\* C12 (amended): the request built for an invocation is a function of its
\* tool name, its arguments, the startup credential and, for upload_asset,
\* the bytes of the file read, unchanged by the invocations answered before
\* it, successful or failed: it is the request a process that has handled
\* nothing yet builds, and an invocation with the name, arguments and file
\* of the one answered before it builds the same request (or none, as
\* before); trash_folder(id) then restore_folder(id) issues a POST to
\* /folders/{id}/trash and one to /folders/{id}/restore; credential and
\* catalog are never modified.
C12_RequestFromNameArgsAndFile ==
  /\ CredentialAndCatalogKept
  /\ TrashThenRestore
  /\ \A i \in Slots :
       /\ calls[i].st # "idle" => calls[i].req = BuiltAfresh(calls[i])
       /\ (prev # None /\ calls[i].st # "idle"
             /\ calls[i].name = prev.name /\ calls[i].args = prev.args
             /\ calls[i].file = prev.file) =>
            calls[i].req = prev.req

C12_Witness ==
  /\ prev # None
  /\ prev.name = "trash_folder"
  /\ prev.req # None
  /\ prev.out.isError
  /\ calls[1].name = "restore_folder"
  /\ calls[1].args = prev.args
  /\ calls[1].st = "done"
  /\ ~calls[1].out.isError

----------------------------------------------------------------------------

\* the response the handler owes an invocation, from its own arguments, its
\* own file and the reply to its own request
OwnResponse(c) ==
  IF c.req = None
    THEN StartCall(build, env, c.name, c.args,
                   Dispatch(c.name, c.args, IF c.file = None THEN Unreadable ELSE c.file)).out
  ELSE IF c.res.t = "failure"
    THEN ErrorResponse(<<"Error: ">> \o FetchFailedError(c.req.url, c.res.raw))
  ELSE IF \A d \in Documents : Stringify(d) # c.res.raw
    THEN ErrorResponse(<<"Error: ">> \o InvalidJsonError(c.req.url))
  ELSE LET data == CHOOSE d \in Documents : Stringify(d) = c.res.raw
       IN IF c.res.status \in 200..299
            THEN TextResponse(StringifyPretty(data))
          ELSE ErrorResponse(<<"Error: ", "API request failed: ", ToString(c.res.status), " - ">>
                               \o Stringify(data))

C13_OwnRequestAndResponse ==
  \A i \in Slots :
    /\ calls[i].st # "idle" => calls[i].req = BuiltAfresh(calls[i])
    /\ calls[i].st = "done" => calls[i].out = OwnResponse(calls[i])

\* a step of one invocation leaves every other invocation as it was
C13_OneInvocationPerStep ==
  \A i, j \in Slots : (i # j /\ calls'[j] # calls[j]) => calls'[i] = calls[i]

\* C13: with several invocations in flight and their file reads and HTTP
\* calls completing in any interleaving, each invocation's request is the
\* one built from its own arguments and file, its response is the one its
\* own arguments and the reply to its own request give, and a step of one
\* invocation (a failure included) changes no other invocation.
C13_InvocationsIndependent ==
  []C13_OwnRequestAndResponse /\ [][C13_OneInvocationPerStep]_vars

C13_Witness ==
  /\ scope = "concurrent"
  /\ calls[1].st = "done"
  /\ calls[2].st = "done"
  /\ calls[1].name = calls[2].name
  /\ calls[1].args = calls[2].args
  /\ calls[1].res = NetworkFailure
  /\ calls[1].out.isError
  /\ calls[2].res.t = "response"
  /\ ~calls[2].out.isError

----------------------------------------------------------------------------

\* the path of a request URL below the API base: the tokens after the base,
\* up to the query string or fragment
PathOf(url) ==
  LET rest == SubSeq(url, Len(API_BASE_URL) + 1, Len(url))
      cut == {i \in 1..Len(rest) : rest[i] \in {"?", "#"}}
  IN IF cut = {} THEN rest
     ELSE SubSeq(rest, 1, (CHOOSE i \in cut : \A j \in cut : i <= j) - 1)

\* the remote route a request reaches, named after the tool that owns it
RouteOf(req) ==
  LET seg == SplitOn(PathOf(req.url), "/")
  IN IF SubSeq(req.url, 1, Len(API_BASE_URL)) # API_BASE_URL \/ Len(seg) < 2
          \/ seg[1] # <<>>
       THEN "none"
     ELSE IF req.method = "POST" /\ Len(seg) = 4 /\ seg[2] = <<"asset">>
             /\ seg[4] = <<"delete">>
       THEN "delete_asset"
     ELSE IF req.method = "POST" /\ Len(seg) = 3 /\ seg[2] = <<"folders">>
             /\ seg[3] = <<"create">>
       THEN "create_folder"
     ELSE IF req.method = "POST" /\ Len(seg) = 4 /\ seg[2] = <<"folders">>
             /\ seg[4] = <<"trash">>
       THEN "trash_folder"
     ELSE IF req.method = "POST" /\ Len(seg) = 4 /\ seg[2] = <<"folders">>
             /\ seg[4] = <<"restore">>
       THEN "restore_folder"
     ELSE IF req.method = "POST" /\ Len(seg) = 3 /\ seg[2] = <<"folders">>
       THEN "update_folder"
     ELSE "none"

\* C14 (as claimed): for every identifier supplied as asset_id or folder_id,
\* '/' and '?' included, the request of delete_asset, update_folder,
\* trash_folder and restore_folder reaches the route of that tool and of no
\* other tool.
C14_RouteFromToolNameAlone ==
  \A i \in Slots :
    (/\ calls[i].name \in {"delete_asset", "update_folder", "trash_folder", "restore_folder"}
     /\ calls[i].req # None) =>
      RouteOf(calls[i].req) = calls[i].name

----------------------------------------------------------------------------

\* C15 (as claimed): the startup credential is used as the X-Api-Key header
\* of outbound requests only: for every tool and argument bag the text of
\* the response envelope (success, 'Unknown tool' or 'Error: ...') never
\* contains the API key.
C15_KeyNeverInResponseText ==
  \A i \in Slots :
    (calls[i].st = "done" /\ Truthy(API_KEY)) =>
      /\ ~Contains(calls[i].out.text, API_KEY.s)
      /\ calls[i].req # None => calls[i].req.headers["X-Api-Key"] = API_KEY.s

====
